---- MODULE Spec2Model ----
(***************************************************************************)
(* Model of analyze_repo.py: get_repo_stats (the os.walk scan and the      *)
(* statistics record), format_size, save_report / save_json_report and     *)
(* main.                                                                   *)
(*                                                                         *)
(* Text is a sequence of one-character strings, so that splitext, lower()  *)
(* and the formatted sizes are computed character by character.  Byte      *)
(* counts handed to format_size are little-endian sequences of base-1024   *)
(* digits ("limbs"), so that the GB and TB units are reachable.            *)
(***************************************************************************)
EXTENDS Integers, Sequences, FiniteSets, TLC

VARIABLES
    fs,                 \* the directory tree under start_path (input)
    args,               \* command line and the report files before the run
    pc,                 \* position in the program
    stack,              \* os.walk: directories still to be listed
    cur_root,           \* os.walk: the directory yielded last
    cur_dirs,           \* its dirs list, after dirs[:] = ...
    cur_files,          \* its files not yet processed by the inner loop
    total_size,
    file_count,
    dir_count,
    files_by_extension, \* dict, as a sequence of entries in insertion order
    largest_files,      \* list of (file_path, file_size)
    failed,             \* history: the files whose getsize raised OSError
    stats,              \* the dictionary returned by get_repo_stats
    report_log,         \* the file at args.output
    report_json,        \* the file report.json
    chunks,             \* save_*: the f.write calls still to be made
    exit_code,          \* the value returned by main
    fmt_in,             \* format_size under test: its argument
    fmt_out             \* format_size under test: its result

vars == <<fs, args, pc, stack, cur_root, cur_dirs, cur_files, total_size,
          file_count, dir_count, files_by_extension, largest_files, failed,
          stats, report_log, report_json, chunks, exit_code, fmt_in, fmt_out>>

----------------------------------------------------------------------------
(* Bounds *)

MaxFiles == 12      \* files in the large flat directory (more than TopN)
MaxSmall == 3       \* files in the small flat directories
NumSeeds == 3       \* size patterns tried for the patterned trees
MaxLimbs == 6       \* base-1024 digits of a format_size argument

(* Program constants *)

TopN == 10          \* largest_files[:10]
Kilo == 1024        \* 1024.0 in format_size

----------------------------------------------------------------------------
(* Text *)

UpperChars == <<"A","B","C","D","E","F","G","H","I","J","K","L","M",
                "N","O","P","Q","R","S","T","U","V","W","X","Y","Z">>
LowerChars == <<"a","b","c","d","e","f","g","h","i","j","k","l","m",
                "n","o","p","q","r","s","t","u","v","w","x","y","z">>

LowerChar(c) ==
    IF \E i \in 1..26 : UpperChars[i] = c
    THEN LowerChars[CHOOSE i \in 1..26 : UpperChars[i] = c]
    ELSE c

\* str.lower()
Lower(s) == [i \in 1..Len(s) |-> LowerChar(s[i])]

\* str.rfind("."): the last index holding a dot, 0 when there is none
RFindDot(s) ==
    IF \E i \in 1..Len(s) : s[i] = "."
    THEN CHOOSE i \in 1..Len(s) : s[i] = "." /\ \A j \in (i+1)..Len(s) : s[j] # "."
    ELSE 0

\* os.path.splitext(file)[1] for a basename: the text from the last dot on,
\* unless every character before that dot is a dot too (leading dots do not
\* start an extension)
splitext_ext(s) ==
    LET dotIndex == RFindDot(s) IN
    IF dotIndex > 0 /\ \E i \in 1..(dotIndex - 1) : s[i] # "."
    THEN SubSeq(s, dotIndex, Len(s))
    ELSE <<>>

no_extension == <<"n","o","_","e","x","t","e","n","s","i","o","n">>

\* the same without lower(): ".TXT" and ".txt" stay apart
ExtKey_NoLower(file) ==
    LET ext == splitext_ext(file) IN
    IF ext # <<>> THEN ext ELSE no_extension

\* ext.lower() if ext else 'no_extension'
ExtKey(file) ==
    LET ext == splitext_ext(file) IN
    IF ext # <<>> THEN Lower(ext) ELSE no_extension

DigitChars == <<"0","1","2","3","4","5","6","7","8","9">>

RECURSIVE NatDigits(_)
NatDigits(n) ==
    IF n < 10 THEN <<DigitChars[n + 1]>>
    ELSE NatDigits(n \div 10) \o <<DigitChars[(n % 10) + 1]>>

\* str(n) for an integer
IntStr(n) == IF n < 0 THEN <<"-">> \o NatDigits(0 - n) ELSE NatDigits(n)

----------------------------------------------------------------------------
(* Non-negative integers as little-endian base-1024 digit sequences *)

RECURSIVE Norm(_)
Norm(L) ==
    IF L # <<>> /\ L[Len(L)] = 0 THEN Norm(SubSeq(L, 1, Len(L) - 1)) ELSE L

RECURSIVE ToLimbs(_)
ToLimbs(n) == IF n = 0 THEN <<>> ELSE <<n % Kilo>> \o ToLimbs(n \div Kilo)

RECURSIVE MulSmall(_, _, _)
MulSmall(L, m, carry) ==
    IF L = <<>> THEN ToLimbs(carry)
    ELSE LET p == Head(L) * m + carry
         IN  <<p % Kilo>> \o MulSmall(Tail(L), m, p \div Kilo)

\* quotient (same length as L) and remainder of L by a small d
RECURSIVE DivSmall(_, _)
DivSmall(L, d) ==
    IF L = <<>> THEN [q |-> <<>>, r |-> 0]
    ELSE LET hi  == DivSmall(Tail(L), d)
             cur == hi.r * Kilo + Head(L)
         IN  [q |-> <<cur \div d>> \o hi.q, r |-> cur % d]

RECURSIVE AddSmall(_, _)
AddSmall(L, c) ==
    IF c = 0 THEN L
    ELSE IF L = <<>> THEN ToLimbs(c)
    ELSE LET s == Head(L) + c
         IN  <<s % Kilo>> \o AddSmall(Tail(L), s \div Kilo)

\* L * 1024^k
Shift(L, k) == IF L = <<>> THEN <<>> ELSE [i \in 1..k |-> 0] \o L

\* -1, 0, 1 as A <, =, > B (both normalised)
RECURSIVE CmpLimbs(_, _)
CmpLimbs(A, B) ==
    IF Len(A) # Len(B) THEN (IF Len(A) < Len(B) THEN -1 ELSE 1)
    ELSE IF A = <<>> THEN 0
    ELSE IF A[Len(A)] # B[Len(B)] THEN (IF A[Len(A)] < B[Len(B)] THEN -1 ELSE 1)
    ELSE CmpLimbs(SubSeq(A, 1, Len(A) - 1), SubSeq(B, 1, Len(B) - 1))

RECURSIVE LimbDigits(_)
LimbDigits(L) ==
    IF Norm(L) = <<>> THEN <<>>
    ELSE LET d == DivSmall(Norm(L), 10)
         IN  LimbDigits(d.q) \o <<DigitChars[d.r + 1]>>

----------------------------------------------------------------------------
(* Floating point values met by format_size.                               *)
(* A value is num / (den * 1024^k), with err the sign of (the double the   *)
(* program holds) - (that exact quotient).  Integers below 2^53 and their  *)
(* quotients by powers of 1024 are exact (err = 0); total_size/file_count  *)
(* is the correctly rounded quotient.                                      *)

FromInt(n) == [num |-> ToLimbs(n), den |-> 1, k |-> 0, err |-> 0]
FromLimbs(L) == [num |-> Norm(L), den |-> 1, k |-> 0, err |-> 0]

RECURSIVE PowMod(_, _, _)
PowMod(b, e, m) == IF e = 0 THEN 1 % m ELSE (b * PowMod(b, e - 1, m)) % m

\* the e with 2^e <= t/c < 2^(e+1), for t, c > 0
RECURSIVE Log2Up(_, _, _)
Log2Up(t, c, e) == IF 2 * c <= t THEN Log2Up(t, 2 * c, e + 1) ELSE e
RECURSIVE Log2Down(_, _, _)
Log2Down(t, c, e) == IF t < c THEN Log2Down(2 * t, c, e - 1) ELSE e
FloorLog2(t, c) == IF t >= c THEN Log2Up(t, c, 0) ELSE Log2Down(t, c, 0)

\* total_size / file_count (int / int true division, round to nearest):
\* the 53-bit significand is floor(t * 2^(52-e) / c), rounded by the remainder
TrueDiv(t, c) ==
    LET s == 52 - FloorLog2(t, c)
        r == ((t % c) * PowMod(2, s, c)) % c
    IN  [num |-> ToLimbs(t), den |-> c, k |-> 0,
         err |-> IF t = 0 \/ r = 0 THEN 0 ELSE IF 2 * r < c THEN -1 ELSE 1]

\* size_bytes <= 1024.0 in place of <
Lt1024_OrEqual(v) == CmpLimbs(Norm(v.num), Shift(ToLimbs(v.den), v.k + 1)) <= 0

\* size_bytes < 1024.0
Lt1024(v) == CmpLimbs(Norm(v.num), Shift(ToLimbs(v.den), v.k + 1)) < 0

\* size_bytes /= 1024.0
Div1024(v) == [v EXCEPT !.k = @ + 1]

\* f"{size_bytes:.2f} {unit}": the value in hundredths, rounded to nearest,
\* an exact tie going to the even neighbour
Render(v, unit) ==
    LET D        == DivSmall(MulSmall(v.num, 100, 0), v.den)
        Q        == D.q
        Limb(i)  == IF i <= Len(Q) THEN Q[i] ELSE 0
        intPart  == Norm(SubSeq(Q, v.k + 1, Len(Q)))
        rest     == D.r > 0 \/ \E i \in 1..(v.k - 1) : Limb(i) # 0
        above    == IF v.k = 0 THEN 2 * D.r > v.den
                    ELSE Limb(v.k) > 512 \/ (Limb(v.k) = 512 /\ rest)
        tie      == IF v.k = 0 THEN D.r > 0 /\ 2 * D.r = v.den
                    ELSE Limb(v.k) = 512 /\ ~rest
        odd      == intPart # <<>> /\ intPart[1] % 2 = 1
        roundUp  == above \/ (tie /\ (v.err > 0 \/ (v.err = 0 /\ odd)))
        H        == IF roundUp THEN AddSmall(intPart, 1) ELSE intPart
        raw      == LimbDigits(H)
        ds       == [i \in 1..(3 - Len(raw)) |-> "0"] \o raw
    IN  SubSeq(ds, 1, Len(ds) - 2) \o <<".">> \o SubSeq(ds, Len(ds) - 1, Len(ds))
          \o <<" ">> \o unit

Units == << <<"B">>, <<"K","B">>, <<"M","B">>, <<"G","B">> >>
UnitTB == <<"T","B">>

\* for unit in ['B','KB','MB','GB']: return if < 1024.0, else divide
RECURSIVE FormatLoop(_, _)
FormatLoop(v, i) ==
    IF i > Len(Units) THEN Render(v, UnitTB)
    ELSE IF Lt1024(v) THEN Render(v, Units[i])
    ELSE FormatLoop(Div1024(v), i + 1)

format_size(v) == FormatLoop(v, 1)

----------------------------------------------------------------------------
(* File names and directory trees *)

NameChars == <<"a", "B", ".">>

\* the 27 three-character basenames over NameChars: "aaa", "Baa", ".aa",
\* "aBa", ..., "a.B", ..., "aa.", ..., "..a", "..."
NameOf(i) == <<NameChars[(i % 3) + 1], NameChars[((i \div 3) % 3) + 1],
               NameChars[((i \div 9) % 3) + 1]>>
NumNames == Len(NameChars) * Len(NameChars) * Len(NameChars)

N_a_txt     == <<"a",".","t","x","t">>
N_b_TXT     == <<"b",".","T","X","T">>
N_README    == <<"R","E","A","D","M","E">>
N_x_py      == <<"x",".","p","y">>
N_bashrc    == <<".","b","a","s","h","r","c">>
N_venv      == <<"v","e","n","v">>
N_m_tar_gz  == <<"m",".","t","a","r",".","G","z">>
N_gitignore == <<".","g","i","t","i","g","n","o","r","e">>
N_DS_Store  == <<".","D","S","_","S","t","o","r","e">>
N_Thumbs_db == <<"T","h","u","m","b","s",".","d","b">>
N_report_log  == <<"r","e","p","o","r","t",".","l","o","g">>
N_report_json == <<"r","e","p","o","r","t",".","j","s","o","n">>
N_REPORT_LOG  == <<"R","E","P","O","R","T",".","L","O","G">>

ignore_dirs == {".git", ".github", "__pycache__", "node_modules", "venv",
                ".venv", ".idea", ".vscode"}
ignore_files == {N_gitignore, N_DS_Store, N_Thumbs_db, N_report_log, N_report_json}

IgnoreDirList == <<".git", ".github", "__pycache__", "node_modules", "venv",
                   ".venv", ".idea", ".vscode">>

SizePool == <<100, 0, 1536, 50, 3145728, 1, 1536>>
SizeAt(seed, j) == SizePool[((j * (seed + 1) + seed) % Len(SizePool)) + 1]
SmallSizes == {0, 1, 1536}

File(name, size) == [name |-> name, size |-> size]
Dir(path, subdirs, files, listable) ==
    [path |-> path, subdirs |-> subdirs, files |-> files, listable |-> listable]

\* a tree: the status of start_path itself and, for each directory below it
\* (by its path relative to start_path), what os.scandir returns there
Tree(root, entries) ==
    [root |-> root,
     dirs |-> [p \in {e.path : e \in entries} |->
                    LET e == CHOOSE e \in entries : e.path = p
                    IN  [subdirs |-> e.subdirs, files |-> e.files,
                         listable |-> e.listable]]]

MissingRoot == Tree("missing", {})
DeniedRoot  == Tree("denied", {Dir(<<>>, <<>>, <<File(N_a_txt, 100)>>, FALSE)})

\* one directory holding n files
Flat(n, off, seed) ==
    Tree("ok", {Dir(<<>>, <<>>,
                    [j \in 1..n |-> File(NameOf((off + 7 * j) % NumNames),
                                         SizeAt(seed, j))], TRUE)})

SmallFlat(off, sizes) ==
    Tree("ok", {Dir(<<>>, <<>>,
                    [j \in 1..Len(sizes) |->
                        File(NameOf((off + 7 * j) % NumNames), sizes[j])], TRUE)})

\* a tree with ignored directories at depth 1 and 2, nested entries below
\* them, ignored file names, an unreadable directory and look-alike names
Nested(i, seed) ==
    LET ig  == IgnoreDirList[i]
        ig2 == IgnoreDirList[(i % Len(IgnoreDirList)) + 1]
    IN Tree("ok", {
        Dir(<<>>, <<ig, "src">>,
            <<File(N_a_txt, 100), File(N_b_TXT, 50), File(N_gitignore, 7),
              File(N_README, 10)>>, TRUE),
        Dir(<<ig>>, <<"lib">>, <<File(N_x_py, 999999)>>, TRUE),
        Dir(<<ig, "lib">>, <<"pkg">>, <<File(N_a_txt, 5000), File(N_README, 1)>>, TRUE),
        Dir(<<ig, "lib", "pkg">>, <<>>, <<File(N_m_tar_gz, 4000000)>>, TRUE),
        Dir(<<"src">>, <<"pkg", ig2, "locked", "report.log">>,
            <<File(N_bashrc, SizeAt(seed, 1)), File(N_report_log, 300),
              File(N_venv, SizeAt(seed, 2))>>, TRUE),
        Dir(<<"src", "pkg">>, <<"Venv">>,
            <<File(N_Thumbs_db, 9), File(N_m_tar_gz, SizeAt(seed, 3))>>, TRUE),
        Dir(<<"src", "pkg", "Venv">>, <<>>, <<File(N_REPORT_LOG, SizeAt(seed, 4))>>, TRUE),
        Dir(<<"src", ig2>>, <<"inner">>, <<File(N_b_TXT, 2000000)>>, TRUE),
        Dir(<<"src", ig2, "inner">>, <<>>, <<File(N_x_py, 123456)>>, TRUE),
        Dir(<<"src", "locked">>, <<"sub">>, <<File(N_x_py, 77)>>, FALSE),
        Dir(<<"src", "locked", "sub">>, <<>>, <<File(N_a_txt, 88)>>, TRUE),
        Dir(<<"src", "report.log">>, <<>>, <<File(N_DS_Store, 6), File(N_x_py, 2048)>>, TRUE)})

RECURSIVE SeqsUpTo(_, _)
SeqsUpTo(S, n) ==
    IF n = 0 THEN {<<>>}
    ELSE LET shorter == SeqsUpTo(S, n - 1)
         IN  shorter \cup {Append(s, x) : s \in {t \in shorter : Len(t) = n - 1}, x \in S}

ScanTrees ==
    {MissingRoot, DeniedRoot}
    \cup {Flat(n, 5 * seed, seed) : n \in (MaxFiles - 2)..MaxFiles, seed \in 0..(NumSeeds - 1)}
    \cup {SmallFlat(off, sizes) : off \in 0..(NumNames - 1), sizes \in SeqsUpTo(SmallSizes, MaxSmall)}
    \cup {Nested(i, seed) : i \in 1..Len(IgnoreDirList), seed \in 0..(NumSeeds - 1)}

\* a.txt, b.TXT, README and .DS_Store beside an ignored venv/ holding x.py
Scenario ==
    Tree("ok", {
        Dir(<<>>, <<"venv">>,
            <<File(N_a_txt, 100), File(N_DS_Store, 6), File(N_b_TXT, 50),
              File(N_README, 10)>>, TRUE),
        Dir(<<"venv">>, <<>>, <<File(N_x_py, 999999)>>, TRUE)})

MainTrees ==
    {MissingRoot, DeniedRoot, Scenario}
    \cup {Flat(n, 3, 1) : n \in 0..2}

----------------------------------------------------------------------------
(* get_repo_stats *)

\* the listing os.scandir gives for a walked path (start_path first)
Rel(path) == Tail(path)
Listable(path) ==
    /\ fs.root = "ok"
    /\ Rel(path) \in DOMAIN fs.dirs
    /\ fs.dirs[Rel(path)].listable

\* os.path.join(root, file)
Join(root, file) == [dir |-> root, name |-> file]

\* os.path.relpath(path, start_path) for a path below start_path
relpath(path) == [dir |-> Tail(path.dir), name |-> path.name]

\* dirs = [...] in place of dirs[:] = [...]: the list os.walk holds is untouched
FilterDirs_Rebound(dirs) == dirs

\* dirs[:] = [d for d in dirs if d not in ignore_dirs]
FilterDirs(dirs) == SelectSeq(dirs, LAMBDA d : d \notin ignore_dirs)

\* files_by_extension[ext] = files_by_extension.get(ext, 0) + 1
DictIncr(d, key) ==
    IF \E i \in 1..Len(d) : d[i].ext = key
    THEN [i \in 1..Len(d) |-> IF d[i].ext = key
                              THEN [d[i] EXCEPT !.count = @ + 1] ELSE d[i]]
    ELSE Append(d, [ext |-> key, count |-> 1])

\* list.sort(key=size) without reverse=True
RECURSIVE InsertAsc(_, _)
InsertAsc(sorted, x) ==
    IF sorted = <<>> THEN <<x>>
    ELSE IF Head(sorted).size <= x.size
         THEN <<Head(sorted)>> \o InsertAsc(Tail(sorted), x)
         ELSE <<x>> \o sorted

RECURSIVE SortDesc_Ascending(_)
SortDesc_Ascending(L) ==
    IF L = <<>> THEN <<>>
    ELSE InsertAsc(SortDesc_Ascending(SubSeq(L, 1, Len(L) - 1)), L[Len(L)])

\* list.sort(key=size, reverse=True): stable, equal sizes keep their order
RECURSIVE InsertDesc(_, _)
InsertDesc(sorted, x) ==
    IF sorted = <<>> THEN <<x>>
    ELSE IF Head(sorted).size >= x.size
         THEN <<Head(sorted)>> \o InsertDesc(Tail(sorted), x)
         ELSE <<x>> \o sorted

RECURSIVE SortDesc(_)
SortDesc(L) ==
    IF L = <<>> THEN <<>>
    ELSE InsertDesc(SortDesc(SubSeq(L, 1, Len(L) - 1)), L[Len(L)])

\* largest_files[:10]
Top(L) == SubSeq(L, 1, IF Len(L) < TopN THEN Len(L) ELSE TopN)

ZeroB == <<"0", " ", "B">>

\* total_size // file_count in place of total_size / file_count
AverageFileSize_FloorDiv(total, count) ==
    IF count > 0 THEN format_size(FromInt(total \div count)) ELSE ZeroB

\* total_size / file_count rendered, or the literal "0 B"
AverageFileSize(total, count) ==
    IF count > 0 THEN format_size(TrueDiv(total, count)) ELSE ZeroB

\* directory_count: dir_count - 1
DirectoryCount(dirs) == dirs - 1

\* the dictionary built by the return statement
MakeStats(total, count, dirs, byext, sorted) ==
    [timestamp |-> args.now,
     total_size_bytes |-> total,
     total_size_human |-> format_size(FromInt(total)),
     file_count |-> count,
     directory_count |-> DirectoryCount(dirs),
     total_items |-> count + dirs - 1,
     files_by_extension |-> byext,
     largest_files |-> [i \in 1..Len(Top(sorted)) |->
                          [path |-> relpath(sorted[i].path),
                           size_bytes |-> sorted[i].size,
                           size_human |-> format_size(FromInt(sorted[i].size))]],
     average_file_size |-> AverageFileSize(total, count)]

NoStats == [file_count |-> 0]

scan_locals == <<stack, cur_root, cur_dirs, cur_files, total_size, file_count,
                 dir_count, files_by_extension, largest_files, failed, stats>>
main_locals == <<report_log, report_json, chunks, exit_code>>
fmt_locals  == <<fmt_in, fmt_out>>

\* os.walk lists the next directory and yields it; the loop body filters its
\* dirs and counts it
WalkYield ==
    /\ pc = "walk" /\ stack # <<>> /\ Listable(Head(stack))
    /\ cur_root' = Head(stack)
    /\ cur_dirs' = FilterDirs(fs.dirs[Rel(Head(stack))].subdirs)
    /\ cur_files' = fs.dirs[Rel(Head(stack))].files
    /\ dir_count' = dir_count + 1
    /\ stack' = Tail(stack)
    /\ pc' = "files"
    /\ UNCHANGED <<fs, args, total_size, file_count, files_by_extension,
                   largest_files, failed, stats, main_locals, fmt_locals>>

\* os.scandir raises OSError (missing, not permitted): os.walk, called with
\* no onerror, drops the directory and goes on
WalkError ==
    /\ pc = "walk" /\ stack # <<>> /\ ~Listable(Head(stack))
    /\ stack' = Tail(stack)
    /\ UNCHANGED <<fs, args, pc, cur_root, cur_dirs, cur_files, total_size,
                   file_count, dir_count, files_by_extension, largest_files,
                   failed, stats, main_locals, fmt_locals>>

\* if file in ignore_files: continue
FileIgnored ==
    /\ pc = "files" /\ cur_files # <<>>
    /\ Head(cur_files).name \in ignore_files
    /\ cur_files' = Tail(cur_files)
    /\ UNCHANGED <<fs, args, pc, stack, cur_root, cur_dirs, total_size,
                   file_count, dir_count, files_by_extension, largest_files,
                   failed, stats, main_locals, fmt_locals>>

\* os.path.getsize succeeds: the file is counted
FileCounted ==
    /\ pc = "files" /\ cur_files # <<>>
    /\ Head(cur_files).name \notin ignore_files
    /\ LET file      == Head(cur_files).name
           file_path == Join(cur_root, file)
           file_size == Head(cur_files).size
       IN  /\ total_size' = total_size + file_size
           /\ file_count' = file_count + 1
           /\ files_by_extension' = DictIncr(files_by_extension, ExtKey(file))
           /\ largest_files' = Append(largest_files,
                                      [path |-> file_path, size |-> file_size])
    /\ cur_files' = Tail(cur_files)
    /\ UNCHANGED <<fs, args, pc, stack, cur_root, cur_dirs, dir_count, failed,
                   stats, main_locals, fmt_locals>>

\* file_count += 1 placed before os.path.getsize: a failed file is counted
FileSkipped_CountedFirst ==
    /\ pc = "files" /\ cur_files # <<>>
    /\ Head(cur_files).name \notin ignore_files
    /\ file_count' = file_count + 1
    /\ failed' = failed \cup {Join(cur_root, Head(cur_files).name)}
    /\ cur_files' = Tail(cur_files)
    /\ UNCHANGED <<fs, args, pc, stack, cur_root, cur_dirs, total_size,
                   dir_count, files_by_extension, largest_files,
                   stats, main_locals, fmt_locals>>

\* break in place of continue: the rest of the directory's files are dropped
FileSkipped_Break ==
    /\ pc = "files" /\ cur_files # <<>>
    /\ Head(cur_files).name \notin ignore_files
    /\ failed' = failed \cup {Join(cur_root, Head(cur_files).name)}
    /\ cur_files' = <<>>
    /\ UNCHANGED <<fs, args, pc, stack, cur_root, cur_dirs, total_size,
                   file_count, dir_count, files_by_extension, largest_files,
                   stats, main_locals, fmt_locals>>

\* os.path.getsize raises OSError: except (OSError, PermissionError): continue
FileSkipped ==
    /\ pc = "files" /\ cur_files # <<>>
    /\ Head(cur_files).name \notin ignore_files
    /\ failed' = failed \cup {Join(cur_root, Head(cur_files).name)}
    /\ cur_files' = Tail(cur_files)
    /\ UNCHANGED <<fs, args, pc, stack, cur_root, cur_dirs, total_size,
                   file_count, dir_count, files_by_extension, largest_files,
                   stats, main_locals, fmt_locals>>

\* the inner loop is over: os.walk resumes and queues the kept subdirectories
EndFiles ==
    /\ pc = "files" /\ cur_files = <<>>
    /\ stack' = [i \in 1..Len(cur_dirs) |-> Append(cur_root, cur_dirs[i])] \o stack
    /\ pc' = "walk"
    /\ UNCHANGED <<fs, args, cur_root, cur_dirs, cur_files, total_size,
                   file_count, dir_count, files_by_extension, largest_files,
                   failed, stats, main_locals, fmt_locals>>

\* os.walk is exhausted: sort, build the dictionary, return
Return ==
    /\ pc = "walk" /\ stack = <<>>
    /\ largest_files' = SortDesc(largest_files)
    /\ stats' = MakeStats(total_size, file_count, dir_count, files_by_extension,
                          SortDesc(largest_files))
    /\ pc' = "returned"
    /\ UNCHANGED <<fs, args, stack, cur_root, cur_dirs, cur_files, total_size,
                   file_count, dir_count, files_by_extension, failed,
                   main_locals, fmt_locals>>

NoFile == [exists |-> FALSE, data |-> <<>>]
OldFile == [exists |-> TRUE, data |-> << <<"o","l","d">> >>]

ScanStart(tree, a) ==
    /\ fs = tree
    /\ args = a
    /\ pc = "walk"
    /\ stack = << <<a.path>> >>
    /\ cur_root = <<>> /\ cur_dirs = <<>> /\ cur_files = <<>>
    /\ total_size = 0 /\ file_count = 0 /\ dir_count = 0
    /\ files_by_extension = <<>> /\ largest_files = <<>>
    /\ failed = {}
    /\ stats = NoStats
    /\ report_log = a.old_log /\ report_json = a.old_json
    /\ chunks = <<>>
    /\ exit_code = -1
    /\ fmt_in = <<>> /\ fmt_out = <<>>

Args(json, old_log, old_json) ==
    [path |-> ".", output |-> "report.log", json |-> json,
     now |-> "2026-01-01 00:00:00", old_log |-> old_log, old_json |-> old_json]

InitScan == \E tree \in ScanTrees : ScanStart(tree, Args(FALSE, NoFile, NoFile))

NextScan ==
    \/ WalkYield
    \/ WalkError
    \/ FileIgnored
    \/ FileCounted
    \/ FileSkipped
    \/ EndFiles
    \/ Return

SpecScan == InitScan /\ [][NextScan]_vars

----------------------------------------------------------------------------
(* format_size on its own *)

LimbVals == {0, 1, 128, 512, 1023}

\* the integers a double holds exactly: at most 53 significant bits
RECURSIVE StripLow(_)
StripLow(L) == IF L # <<>> /\ Head(L) = 0 THEN StripLow(Tail(L)) ELSE L
Exact53(L) ==
    LET S == StripLow(L)
    IN  Len(S) <= 5 \/ (Len(S) = 6 /\ S[6] < 8)

FmtInputs == {L \in SeqsUpTo(LimbVals, MaxLimbs) : Norm(L) = L /\ Exact53(L)}

InitFmt ==
    /\ fmt_in \in FmtInputs
    /\ fmt_out = <<>>
    /\ pc = "fmt"
    /\ fs = MissingRoot
    /\ args = Args(FALSE, NoFile, NoFile)
    /\ stack = <<>>
    /\ cur_root = <<>> /\ cur_dirs = <<>> /\ cur_files = <<>>
    /\ total_size = 0 /\ file_count = 0 /\ dir_count = 0
    /\ files_by_extension = <<>> /\ largest_files = <<>>
    /\ failed = {}
    /\ stats = NoStats
    /\ report_log = NoFile /\ report_json = NoFile
    /\ chunks = <<>>
    /\ exit_code = -1

FmtCall ==
    /\ pc = "fmt"
    /\ fmt_out' = format_size(FromLimbs(fmt_in))
    /\ pc' = "fmt_done"
    /\ UNCHANGED <<fs, args, scan_locals, main_locals, fmt_in>>

NextFmt == FmtCall

SpecFmt == InitFmt /\ [][NextFmt]_vars

----------------------------------------------------------------------------
(* save_report, save_json_report, main *)

\* a relative path as text: the directories, each followed by "/", then the name
RECURSIVE DirText(_)
DirText(d) == IF d = <<>> THEN <<>> ELSE <<Head(d), "/">> \o DirText(Tail(d))
PathText(p) == DirText(p.dir) \o p.name

\* sorted(items, key=count, reverse=True): stable
RECURSIVE InsertByCount(_, _)
InsertByCount(sorted, x) ==
    IF sorted = <<>> THEN <<x>>
    ELSE IF Head(sorted).count >= x.count
         THEN <<Head(sorted)>> \o InsertByCount(Tail(sorted), x)
         ELSE <<x>> \o sorted

RECURSIVE SortByCount(_)
SortByCount(L) ==
    IF L = <<>> THEN <<>>
    ELSE InsertByCount(SortByCount(SubSeq(L, 1, Len(L) - 1)), L[Len(L)])

\* the f.write calls of save_report, in order, each as the text it carries
\* (labels in place of the captions; column padding, digit grouping and the
\* percentage column are layout and are left out)
ReportChunks(st) ==
    LET exts == SortByCount(st.files_by_extension)
        ExtName(e) == IF e = no_extension THEN <<"(none)">> ELSE e
    IN  << <<"====">>, <<"title">>, <<"====">>,
           <<"time:", st.timestamp>>,
           <<"files:">> \o IntStr(st.file_count),
           <<"dirs:">> \o IntStr(st.directory_count),
           <<"items:">> \o IntStr(st.total_items),
           <<"size:">> \o st.total_size_human,
           <<"average:">> \o st.average_file_size,
           <<"----">>, <<"extensions">>, <<"----">> >>
        \o [i \in 1..Len(exts) |->
               ExtName(exts[i].ext) \o <<" ">> \o IntStr(exts[i].count)]
        \o << <<"----">>, <<"largest">>, <<"----">> >>
        \o [i \in 1..Len(st.largest_files) |->
               IntStr(i) \o <<". ">> \o PathText(st.largest_files[i].path)
                 \o <<" ">> \o st.largest_files[i].size_human]
        \o << <<"====">>, <<"end">>, <<"====">> >>

\* the chunks json.dump writes: one per scalar field and per collection entry
JsonChunks(st) ==
    << <<"{">>,
       <<"timestamp", st.timestamp>>,
       <<"total_size_bytes">> \o IntStr(st.total_size_bytes),
       <<"total_size_human">> \o st.total_size_human,
       <<"file_count">> \o IntStr(st.file_count),
       <<"directory_count">> \o IntStr(st.directory_count),
       <<"total_items">> \o IntStr(st.total_items),
       <<"files_by_extension">> >>
    \o [i \in 1..Len(st.files_by_extension) |->
           st.files_by_extension[i].ext \o <<":">>
             \o IntStr(st.files_by_extension[i].count)]
    \o << <<"largest_files">> >>
    \o [i \in 1..Len(st.largest_files) |->
           PathText(st.largest_files[i].path) \o <<":">>
             \o IntStr(st.largest_files[i].size_bytes) \o <<":">>
             \o st.largest_files[i].size_human]
    \o << <<"average_file_size">> \o st.average_file_size, <<"}">> >>

\* what a failed write can leave behind: the buffer is flushed when the with
\* block closes, so any prefix of the text written so far
Prefixes(data) == {SubSeq(data, 1, n) : n \in 0..Len(data)}

\* open(output_file, 'w') creates or truncates the file
SaveReportOpen ==
    /\ pc = "returned"
    /\ report_log' = [exists |-> TRUE, data |-> <<>>]
    /\ chunks' = ReportChunks(stats)
    /\ pc' = "write_log"
    /\ UNCHANGED <<fs, args, scan_locals, report_json, exit_code, fmt_locals>>

\* open raises OSError; main's handlers return 1
SaveReportOpenError ==
    /\ pc = "returned"
    /\ exit_code' = 1
    /\ pc' = "done"
    /\ UNCHANGED <<fs, args, scan_locals, report_log, report_json, chunks, fmt_locals>>

\* one f.write
SaveReportWrite ==
    /\ pc = "write_log" /\ chunks # <<>>
    /\ report_log' = [report_log EXCEPT !.data = Append(@, Head(chunks))]
    /\ chunks' = Tail(chunks)
    /\ UNCHANGED <<fs, args, pc, scan_locals, report_json, exit_code, fmt_locals>>

\* a write raises OSError (disk full, I/O error): the with block closes the
\* file, the exception reaches main, main returns 1
SaveReportWriteError ==
    /\ pc = "write_log" /\ chunks # <<>>
    /\ \E kept \in Prefixes(report_log.data) :
          report_log' = [report_log EXCEPT !.data = kept]
    /\ exit_code' = 1
    /\ pc' = "done"
    /\ UNCHANGED <<fs, args, scan_locals, report_json, chunks, fmt_locals>>

\* the with block ends, the summary is printed; main goes on to --json
SaveReportClose ==
    /\ pc = "write_log" /\ chunks = <<>>
    /\ IF args.json
       THEN pc' = "json" /\ UNCHANGED exit_code
       ELSE pc' = "done" /\ exit_code' = 0
    /\ UNCHANGED <<fs, args, scan_locals, report_log, report_json, chunks, fmt_locals>>

SaveJsonOpen ==
    /\ pc = "json"
    /\ report_json' = [exists |-> TRUE, data |-> <<>>]
    /\ chunks' = JsonChunks(stats)
    /\ pc' = "write_json"
    /\ UNCHANGED <<fs, args, scan_locals, report_log, exit_code, fmt_locals>>

SaveJsonOpenError ==
    /\ pc = "json"
    /\ exit_code' = 1
    /\ pc' = "done"
    /\ UNCHANGED <<fs, args, scan_locals, report_log, report_json, chunks, fmt_locals>>

SaveJsonWrite ==
    /\ pc = "write_json" /\ chunks # <<>>
    /\ report_json' = [report_json EXCEPT !.data = Append(@, Head(chunks))]
    /\ chunks' = Tail(chunks)
    /\ UNCHANGED <<fs, args, pc, scan_locals, report_log, exit_code, fmt_locals>>

SaveJsonWriteError ==
    /\ pc = "write_json" /\ chunks # <<>>
    /\ \E kept \in Prefixes(report_json.data) :
          report_json' = [report_json EXCEPT !.data = kept]
    /\ exit_code' = 1
    /\ pc' = "done"
    /\ UNCHANGED <<fs, args, scan_locals, report_log, chunks, fmt_locals>>

\* the with block ends; main returns 0
SaveJsonClose ==
    /\ pc = "write_json" /\ chunks = <<>>
    /\ exit_code' = 0
    /\ pc' = "done"
    /\ UNCHANGED <<fs, args, scan_locals, report_log, report_json, chunks, fmt_locals>>

Init ==
    \E tree \in MainTrees, json \in BOOLEAN,
       old_log \in {NoFile, OldFile}, old_json \in {NoFile, OldFile} :
        ScanStart(tree, Args(json, old_log, old_json))

Next ==
    \/ WalkYield
    \/ WalkError
    \/ FileIgnored
    \/ FileCounted
    \/ FileSkipped
    \/ EndFiles
    \/ Return
    \/ SaveReportOpen
    \/ SaveReportOpenError
    \/ SaveReportWrite
    \/ SaveReportWriteError
    \/ SaveReportClose
    \/ SaveJsonOpen
    \/ SaveJsonOpenError
    \/ SaveJsonWrite
    \/ SaveJsonWriteError
    \/ SaveJsonClose

Spec == Init /\ [][Next]_vars

----------------------------------------------------------------------------
(* What the tree holds, read off fs without walking it *)

\* the directories os.walk can reach: every directory on the way down is
\* listed by its parent and can be listed itself
RECURSIVE Reachable(_)
Reachable(p) ==
    /\ fs.root = "ok"
    /\ p \in DOMAIN fs.dirs
    /\ fs.dirs[p].listable
    /\ \/ p = <<>>
       \/ LET parent == SubSeq(p, 1, Len(p) - 1)
          IN  /\ Reachable(parent)
              /\ \E i \in 1..Len(fs.dirs[parent].subdirs) :
                     fs.dirs[parent].subdirs[i] = p[Len(p)]

UnderIgnored(p) == \E i \in 1..Len(p) : p[i] \in ignore_dirs

KeptDirs == {p \in DOMAIN fs.dirs : Reachable(p) /\ ~UnderIgnored(p)}

FilesIn(p) ==
    {[path |-> [dir |-> p, name |-> fs.dirs[p].files[i].name],
      size |-> fs.dirs[p].files[i].size] : i \in 1..Len(fs.dirs[p].files)}

\* the files of kept directories whose name is not an ignored file name
Eligible == {f \in UNION {FilesIn(p) : p \in KeptDirs} : f.path.name \notin ignore_files}

WalkedPath(f) == [dir |-> <<args.path>> \o f.path.dir, name |-> f.path.name]

\* the eligible files whose size could be read
Readable == {f \in Eligible : WalkedPath(f) \notin failed}

RECURSIVE SumSizes(_)
SumSizes(S) ==
    IF S = {} THEN 0
    ELSE LET f == CHOOSE f \in S : TRUE IN f.size + SumSizes(S \ {f})

RECURSIVE SumCounts(_)
SumCounts(d) == IF d = <<>> THEN 0 ELSE Head(d).count + SumCounts(Tail(d))

\* the count a dict holds for a key, 0 when the key is absent
CountOf(d, key) ==
    IF \E i \in 1..Len(d) : d[i].ext = key
    THEN (CHOOSE e \in {d[i] : i \in 1..Len(d)} : e.ext = key).count
    ELSE 0

Keys(d) == {d[i].ext : i \in 1..Len(d)}
Returned == pc = "returned"

----------------------------------------------------------------------------
(* Reading a formatted size back *)

SpaceAt(text) == CHOOSE i \in 1..Len(text) : text[i] = " "
DigitVal(c) == (CHOOSE i \in 1..10 : DigitChars[i] = c) - 1
IsDigit(c) == \E i \in 1..10 : DigitChars[i] = c

RECURSIVE DigitsToLimbs(_)
DigitsToLimbs(ds) ==
    IF ds = <<>> THEN <<>>
    ELSE Norm(AddSmall(MulSmall(DigitsToLimbs(SubSeq(ds, 1, Len(ds) - 1)), 10, 0),
                       DigitVal(ds[Len(ds)])))

\* "<digits>.<2 digits> <unit>"
WellFormed(text) ==
    /\ \E i \in 1..Len(text) : text[i] = " "
    /\ LET sp == SpaceAt(text) IN
       /\ sp >= 5
       /\ text[sp - 3] = "."
       /\ \A i \in 1..(sp - 1) : i # sp - 3 => IsDigit(text[i])
       /\ sp = 5 \/ text[1] # "0"

Hundredths(text) ==
    LET sp == SpaceAt(text)
    IN  DigitsToLimbs(SubSeq(text, 1, sp - 4) \o SubSeq(text, sp - 2, sp - 1))

UnitOf(text) == SubSeq(text, SpaceAt(text) + 1, Len(text))

AllUnits == Units \o <<UnitTB>>

\* L + c * 1024^k
AddAt(L, c, k) ==
    LET P == L \o [i \in 1..(k - Len(L)) |-> 0]
    IN  Norm(SubSeq(P, 1, k) \o AddSmall(SubSeq(P, k + 1, Len(P)), c))

\* text shows the quotient t / c (t in limbs): the unit is the first of
\* B, KB, MB, GB, TB at which the value is below 1024 (TB when none is), and
\* the number is the value in that unit to the nearest hundredth
Shows(text, t, c) ==
    /\ WellFormed(text)
    /\ \E k \in 0..4 :
        /\ UnitOf(text) = AllUnits[k + 1]
        /\ k = 0 \/ CmpLimbs(t, Shift(ToLimbs(c), k)) >= 0
        /\ k = 4 \/ CmpLimbs(t, Shift(ToLimbs(c), k + 1)) < 0
        /\ LET H     == Hundredths(text)
               t200  == Norm(MulSmall(t, 200, 0))
               unit  == Shift(ToLimbs(c), k)
               twoH  == Shift(Norm(MulSmall(MulSmall(H, 2, 0), c, 0)), k)
               above == Shift(Norm(MulSmall(MulSmall(H, 2, 1), c, 0)), k)
           IN  /\ CmpLimbs(twoH, AddAt(t200, c, k)) <= 0
               /\ CmpLimbs(t200, above) <= 0

----------------------------------------------------------------------------
(* Claims *)

\* C1: when the root path does not exist the run is fatal: main returns 1
\* and neither report file is created or overwritten.
C1_MissingRootIsFatal ==
    fs.root = "missing" =>
        /\ report_log = args.old_log
        /\ report_json = args.old_json
        /\ pc = "done" => exit_code = 1

\* C2: the counts in files_by_extension sum to file_count, during the scan
\* and in the returned dictionary, whatever failed or was ignored.
C2_ExtensionCountsSum ==
    /\ SumCounts(files_by_extension) = file_count
    /\ Returned => SumCounts(stats.files_by_extension) = stats.file_count

C2_Witness ==
    /\ Returned
    /\ failed # {}
    /\ stats.file_count >= 2
    /\ Len(stats.files_by_extension) >= 2
    /\ \E p \in KeptDirs : \E f \in FilesIn(p) : f.path.name \in ignore_files

\* C3: the returned largest_files has min(file_count, 10) entries, sorted by
\* size non-increasing, each a distinct counted file, and no counted file left
\* out is strictly larger than a listed one.
C3_LargestFiles ==
    Returned =>
        LET top    == stats.largest_files
            asFile(e) == [path |-> e.path, size |-> e.size_bytes]
            listed == {asFile(top[i]) : i \in 1..Len(top)}
        IN  /\ Len(top) = (IF stats.file_count < 10 THEN stats.file_count ELSE 10)
            /\ \A i \in 1..(Len(top) - 1) : top[i].size_bytes >= top[i + 1].size_bytes
            /\ listed \subseteq Readable
            /\ Cardinality(listed) = Len(top)
            /\ \A out \in Readable \ listed : \A e \in listed : out.size <= e.size

C3_Witness ==
    /\ Returned
    /\ stats.file_count > 10
    /\ stats.largest_files[1].size_bytes > stats.largest_files[10].size_bytes
    /\ \E i \in 1..9 : stats.largest_files[i].size_bytes = stats.largest_files[i + 1].size_bytes
    /\ failed # {}

\* C4: an ignored directory, at any depth, and everything beneath it adds
\* nothing to file_count, directory_count, total_size_bytes,
\* files_by_extension or largest_files: the result is that of the kept
\* directories alone.
C4_IgnoredPruned ==
    /\ pc = "files" => ~UnderIgnored(cur_root)
    /\ \A i \in 1..Len(largest_files) : ~UnderIgnored(largest_files[i].path.dir)
    /\ (Returned /\ fs.root = "ok") =>
            /\ stats.file_count = Cardinality(Readable)
            /\ stats.directory_count = Cardinality(KeptDirs) - 1
            /\ stats.total_size_bytes = SumSizes(Readable)
            /\ \A key \in Keys(stats.files_by_extension) \cup {ExtKey(f.path.name) : f \in Readable} :
                  CountOf(stats.files_by_extension, key)
                    = Cardinality({f \in Readable : ExtKey(f.path.name) = key})
            /\ \A i \in 1..Len(stats.largest_files) :
                  ~UnderIgnored(stats.largest_files[i].path.dir)

C4_Witness ==
    /\ Returned
    /\ stats.file_count > 0
    /\ \E p \in DOMAIN fs.dirs :
          /\ Len(p) >= 3 /\ p[2] \in ignore_dirs /\ p[1] \notin ignore_dirs
          /\ fs.dirs[p].files # <<>>
          /\ \A i \in 1..Len(stats.largest_files) :
                fs.dirs[p].files[1].size > stats.largest_files[i].size_bytes
    /\ \E p \in DOMAIN fs.dirs : Len(p) = 1 /\ p[1] \in ignore_dirs /\ fs.dirs[p].subdirs # <<>>

ZeroZeroB == <<"0", ".", "0", "0", " ", "B">>

\* C5 as claimed: average_file_size is total_size_bytes / file_count as the
\* size formatter shows it, and "0.00 B" when file_count is 0.
C5_AverageOrZeroZero ==
    Returned =>
        IF stats.file_count > 0
        THEN Shows(stats.average_file_size, ToLimbs(stats.total_size_bytes), stats.file_count)
        ELSE stats.average_file_size = ZeroZeroB

\* C5 amended: average_file_size is total_size_bytes / file_count as the size
\* formatter shows it, and the literal "0 B" when file_count is 0.
C5_AverageOrZero ==
    Returned =>
        IF stats.file_count > 0
        THEN Shows(stats.average_file_size, ToLimbs(stats.total_size_bytes), stats.file_count)
        ELSE stats.average_file_size = <<"0", " ", "B">>

C5_Witness ==
    /\ Returned
    /\ stats.file_count >= 2
    /\ stats.total_size_bytes % stats.file_count # 0
    /\ UnitOf(stats.average_file_size) = Units[2]
    /\ failed # {}

\* C6: writing a report is all-or-nothing: whatever the outcome, each
\* destination holds the complete new report or what it held before.
C6_AllOrNothing ==
    pc = "done" =>
        /\ report_log \in {args.old_log, [exists |-> TRUE, data |-> ReportChunks(stats)]}
        /\ report_json \in {args.old_json, [exists |-> TRUE, data |-> JsonChunks(stats)]}

\* C7: every returned result has file_count >= 0, directory_count >= 0 and
\* total_items = file_count + directory_count, directory_count being the
\* number of non-ignored directories entered, the root not counted.
C7_CountsNonNegative ==
    Returned =>
        /\ stats.file_count >= 0
        /\ stats.directory_count >= 0
        /\ stats.total_items = stats.file_count + stats.directory_count
        /\ stats.directory_count = Cardinality(KeptDirs \ {<<>>})

\* C8: format_size(n) names the first unit of B, KB, MB, GB, TB at which
\* n / 1024^k is below 1024 (TB when there is none) and shows n / 1024^k to
\* two decimals; 0, 1023, 1024 and 1024*1024 give "0.00 B", "1023.00 B",
\* "1.00 KB" and "1.00 MB".
C8_FormatSize ==
    pc = "fmt_done" =>
        /\ Shows(fmt_out, fmt_in, 1)
        /\ fmt_in = <<>> => fmt_out = ZeroZeroB
        /\ fmt_in = <<1023>> =>
              fmt_out = <<"1","0","2","3",".","0","0"," ","B">>
        /\ fmt_in = <<0, 1>> => fmt_out = <<"1",".","0","0"," ","K","B">>
        /\ fmt_in = <<0, 0, 1>> => fmt_out = <<"1",".","0","0"," ","M","B">>

C8_Witness ==
    /\ pc = "fmt_done"
    /\ Len(fmt_in) = 6
    /\ UnitOf(fmt_out) = UnitTB
    /\ Len(fmt_out) >= 10

\* C9: a file whose size cannot be read adds nothing to file_count,
\* total_size_bytes, files_by_extension or largest_files, no error leaves
\* get_repo_stats, and every other non-ignored file is counted exactly once.
C9_FailedFileSkipped ==
    /\ pc \in {"walk", "files", "returned"}
    /\ Returned =>
        /\ \A i \in 1..Len(largest_files) : largest_files[i].path \notin failed
        /\ \A f \in Eligible :
              Cardinality({i \in 1..Len(largest_files) :
                              largest_files[i].path = WalkedPath(f)})
                = (IF WalkedPath(f) \in failed THEN 0 ELSE 1)
        /\ stats.file_count + Cardinality(failed) = Cardinality(Eligible)
        /\ stats.total_size_bytes + SumSizes({f \in Eligible : WalkedPath(f) \in failed})
              = SumSizes(Eligible)
        /\ SumCounts(stats.files_by_extension) = Len(largest_files)

C9_Witness ==
    /\ Returned
    /\ Cardinality(KeptDirs) >= 3
    /\ \E f \in Eligible, g \in Eligible, h \in Eligible :
          /\ WalkedPath(f) \in failed
          /\ g.path.dir = f.path.dir /\ WalkedPath(g) \notin failed
          /\ \E i, j \in 1..Len(fs.dirs[f.path.dir].files) :
                /\ i < j
                /\ fs.dirs[f.path.dir].files[i].name = f.path.name
                /\ fs.dirs[f.path.dir].files[j].name = g.path.name
          /\ Len(h.path.dir) > Len(f.path.dir) /\ WalkedPath(h) \notin failed

\* the key C10 names: the text from the last "." on, lower-cased, and the
\* sentinel exactly when the basename holds no "."
LastDotKey(name) ==
    IF \E i \in 1..Len(name) : name[i] = "."
    THEN LET d == CHOOSE i \in 1..Len(name) :
                     name[i] = "." /\ \A j \in (i + 1)..Len(name) : name[j] # "."
         IN  Lower(SubSeq(name, d, Len(name)))
    ELSE no_extension

\* the same, except that a basename with nothing but dots before its last "."
\* has no extension
LeadingDotsKey(name) ==
    IF \E i \in 1..Len(name) : name[i] # "." /\ \E j \in (i + 1)..Len(name) : name[j] = "."
    THEN LastDotKey(name)
    ELSE no_extension

Histogram(KeyOf(_)) ==
    \A key \in Keys(stats.files_by_extension) \cup {KeyOf(f.path.name) : f \in Readable} :
        CountOf(stats.files_by_extension, key)
          = Cardinality({f \in Readable : KeyOf(f.path.name) = key})

\* C10 as claimed: each counted file is classified under the lower-cased text
\* of its basename from the last "." on, and under "no_extension" exactly
\* when the basename holds no ".".
C10_LastDotClassification == Returned => Histogram(LastDotKey)

\* C10 amended: ... and under "no_extension" when the basename holds no "."
\* or holds only dots before its last "." (".bashrc", "...").
C10_LeadingDotsClassification == Returned => Histogram(LeadingDotsKey)

C10_Witness ==
    /\ Returned
    /\ \E f \in Readable : f.path.name[1] = "." /\ RFindDot(f.path.name) = 1
    /\ \E f \in Readable : f.path.name[1] = "." /\ RFindDot(f.path.name) = 2
    /\ \E f \in Readable : f.path.name[1] # "." /\ RFindDot(f.path.name) = Len(f.path.name)
    /\ \E f \in Readable : /\ RFindDot(f.path.name) > 1
                             /\ LastDotKey(f.path.name) = LeadingDotsKey(f.path.name)
                             /\ LastDotKey(f.path.name)
                                  # SubSeq(f.path.name, RFindDot(f.path.name), Len(f.path.name))
    /\ \E f \in Readable : RFindDot(f.path.name) = 0

====
